---- MODULE Spec2Model ----
(***************************************************************************)
(* Product-configuration lifecycle of the Google services manager:         *)
(* ServiceManager.enable_apis / disable_apis / get_status                  *)
(* (src/services/service_mgmt.py) over the Cosmos container                *)
(* "google_configs".                                                       *)
(*                                                                         *)
(* Python dicts are modelled as functions whose DOMAIN is the set of keys  *)
(* present; Python lists as sequences; strings that the code transforms    *)
(* (product codes, ids) as sequences of characters.                        *)
(*                                                                         *)
(* The three handlers are "async def" but contain no await: the Cosmos     *)
(* client they call is the synchronous one, so inside one process each     *)
(* handler body runs to completion on the event loop.  Each is one action. *)
(***************************************************************************)
EXTENDS Integers, Sequences, FiniteSets, TLC

VARIABLES
    container,  \* self.container is set (TRUE) or None (FALSE)
    store,      \* the items of the Cosmos container google_configs
    now,        \* logical clock behind datetime.utcnow()
    calls,      \* number of calls made so far that the model bounds
    request,    \* the last call: operation and arguments
    response,   \* what the last call returned or raised
    before,     \* the items of the container when the last call started
    ops,        \* the store operations the last call made, with their outcomes
    http,       \* the last HTTP exchange of the facade
    tasks,      \* the requests in flight, each with the step its coroutine is at
    app         \* the application's lifespan: "starting", "serving" or "aborted"

\* The state a ServiceManager call reads and writes.
mgr == <<container, store, now, request, response, before, ops>>

vars == <<container, store, now, calls, request, response, before, ops, http, tasks, app>>

----------------------------------------------------------------------------
(* Bounds of the model *)

MaxCalls == 2
MaxServices == 2

----------------------------------------------------------------------------
(* Values *)

\* The four service names enable_apis and get_status know.
Vocabulary == {"analytics", "tags", "adsense", "ads"}

\* Names a request may carry: List[str] admits any string; "maps" stands for
\* a name outside the vocabulary.
ServiceNames == Vocabulary \cup {"maps"}

ServiceLists == UNION {[1..n -> ServiceNames] : n \in 0..MaxServices}

\* Product codes as character sequences; two of them differ only in case.
ProductCodes == {<<"T", "P">>, <<"t", "p">>}

EmptyDict == <<>>

\* dict.get(k, default)
Get(d, k, default) == IF k \in DOMAIN d THEN d[k] ELSE default

\* d[k] = v
Put(d, k, v) == [x \in (DOMAIN d) \cup {k} |-> IF x = k THEN v ELSE d[x]]

\* x in list
InList(x, list) == \E i \in DOMAIN list : list[i] = x

\* Request bodies' config (Dict[str, Any]): none, the body of
\* test_enable_apis, and a body with settings for two services, one of them
\* without an "enabled" key.
NoConfig == EmptyDict

TestConfig ==
    [productName |-> <<"N">>,
     analytics |-> [propertyId |-> "G-TEST123", measurementId |-> "G-TEST123",
                    enabled |-> TRUE]]

GridConfig ==
    [analytics |-> [propertyId |-> "G-1"],
     ads |-> [customerId |-> "123", enabled |-> TRUE]]

Configs == {NoConfig, TestConfig, GridConfig}

----------------------------------------------------------------------------
(* str.lower() and the derived document id *)

LowerChar(c) ==
    CASE c = "T" -> "t"
      [] c = "P" -> "p"
      [] c = "G" -> "g"
      [] OTHER -> c

lower(s) == [i \in DOMAIN s |-> LowerChar(s[i])]

Suffix == <<"-google-config">>

\* The id without the lower-casing.
config_id_verbatim(product_code) == product_code \o Suffix

config_id(product_code) == lower(product_code) \o Suffix

----------------------------------------------------------------------------
(* The container: items are unique per (partition key, id) *)

\* A container partitioned by the id of its items.
partition_key_of_id(item) == item.id

\* The partition key of an item of google_configs.
partition_key_of(item) == item.productCode

\* A read by id alone, across partitions.
read_item_by_id(items, id, partition_key) == {d \in items : d.id = id}

\* container.read_item(id, partition_key): the items it finds (none or one).
read_item(items, id, partition_key) ==
    {d \in items : d.id = id /\ partition_key_of(d) = partition_key}

\* An upsert that removes the item once nothing is enabled in it.
upsert_item_or_delete(items, doc) ==
    {d \in items : ~(d.id = doc.id /\ partition_key_of(d) = partition_key_of(doc))}
    \cup (IF doc.apis.enabled = <<>> THEN {} ELSE {doc})

\* An insert that never replaces (create_item in place of upsert_item).
upsert_item_insert(items, doc) == items \cup {doc}

\* container.upsert_item(doc): replace the item of the same key or create it.
upsert_item(items, doc) ==
    {d \in items : ~(d.id = doc.id /\ partition_key_of(d) = partition_key_of(doc))}
    \cup {doc}

\* A rejected upsert whose write was applied all the same.
upsert_item_raises_applied(items, doc) == upsert_item(items, doc)

\* container.upsert_item(doc) raising: the store rejected the write and
\* keeps its items.
upsert_item_raises(items, doc) == items

\* A failed store operation that is tried once more.
failed_retried(done, op) == done \o <<op, op>>

\* The store operations of a call that ends at a failed one: the exception
\* leaves the try block, nothing is tried again.
failed(done, op) == done \o <<op>>

\* A guard that lets every call through to the store.
not_initialized_never(c) == FALSE

\* "if not self.container": the client was never created.
not_initialized(c) == ~c

NotInitialized == [ok |-> FALSE, error |-> "Cosmos DB not initialized"]
StoreError == [ok |-> FALSE, error |-> "CosmosHttpResponseError"]
NotFound == [ok |-> FALSE, error |-> "CosmosResourceNotFoundError"]

\* A store operation a call made and how it ended.
ReadOk == <<"read_item", "ok">>
ReadNotFound == <<"read_item", "not found">>
ReadError == <<"read_item", "error">>
UpsertOk == <<"upsert_item", "ok">>
UpsertError == <<"upsert_item", "error">>

----------------------------------------------------------------------------
(* enable_apis *)

\* The branch without its "if name in services" guard.
add_service_config_always(product_config, name, services, config) ==
    Put(product_config, name, Get(config, name, EmptyDict))

\* "Add service-specific configs": one if-branch of lines 71-78.
add_service_config(product_config, name, services, config) ==
    IF InList(name, services)
    THEN Put(product_config, name, Get(config, name, EmptyDict))
    ELSE product_config

\* A name that is always the product code.
product_name_is_code(product_code, config) == product_code

\* config.get("productName", product_code)
product_name(product_code, config) == Get(config, "productName", product_code)

\* The document enable_apis builds (lines 58-78), t = datetime.utcnow().
product_config(product_code, services, config, t) ==
    LET base == [id |-> config_id(product_code),
                 productCode |-> product_code,
                 productName |-> product_name(product_code, config),
                 apis |-> [enabled |-> services],
                 updatedAt |-> t]
        d1 == add_service_config(base, "analytics", services, config)
        d2 == add_service_config(d1, "tags", services, config)
        d3 == add_service_config(d2, "adsense", services, config)
    IN  add_service_config(d3, "ads", services, config)

enable_result(product_code, services) ==
    [ok |-> TRUE,
     result |-> [success |-> TRUE,
                 productCode |-> product_code,
                 enabledServices |-> services,
                 configId |-> config_id(product_code)]]

enable_apis(product_code, services, config) ==
    /\ request' = [op |-> "enable", product_code |-> product_code,
                   services |-> services, config |-> config]
    /\ before' = store
    /\ UNCHANGED container
    /\ IF not_initialized(container)
       THEN /\ response' = NotInitialized
            /\ ops' = <<>>
            /\ UNCHANGED <<store, now>>
       ELSE /\ now' = now + 1
            /\ \/ /\ store' = upsert_item(store,
                               product_config(product_code, services, config, now'))
                  /\ ops' = <<UpsertOk>>
                  /\ response' = enable_result(product_code, services)
               \/ /\ store' = upsert_item_raises(store,
                               product_config(product_code, services, config, now'))
                  /\ ops' = failed(<<>>, UpsertError)
                  /\ response' = StoreError

----------------------------------------------------------------------------
(* disable_apis *)

\* A toggle: what was enabled is removed, what was not is added.
remaining_toggle(enabled, services) ==
    SelectSeq(enabled, LAMBDA s : ~InList(s, services))
        \o SelectSeq(services, LAMBDA s : ~InList(s, enabled))

\* The filter with its condition inverted.
remaining_inverted(enabled, services) ==
    SelectSeq(enabled, LAMBDA s : InList(s, services))

\* [s for s in enabled if s not in services]
remaining(enabled, services) ==
    SelectSeq(enabled, LAMBDA s : ~InList(s, services))

\* A disable that also drops the settings of the services it removes.
disabled_config_pruned(config, services, t) ==
    LET enabled == remaining(Get(Get(config, "apis", EmptyDict), "enabled", <<>>),
                             services)
        kept == {k \in DOMAIN config : ~(k \in Vocabulary /\ InList(k, services))}
        c0 == [k \in kept |-> config[k]]
        c1 == Put(c0, "apis", Put(config.apis, "enabled", enabled))
    IN  Put(c1, "updatedAt", t)

\* The document disable_apis writes back (lines 112-115).
disabled_config(config, services, t) ==
    LET enabled == remaining(Get(Get(config, "apis", EmptyDict), "enabled", <<>>),
                             services)
        c1 == Put(config, "apis", Put(config.apis, "enabled", enabled))
    IN  Put(c1, "updatedAt", t)

disable_result(product_code, services, enabled) ==
    [ok |-> TRUE,
     result |-> [success |-> TRUE,
                 productCode |-> product_code,
                 disabledServices |-> services,
                 remainingServices |-> enabled]]

disable_apis(product_code, services) ==
    /\ request' = [op |-> "disable", product_code |-> product_code,
                   services |-> services]
    /\ before' = store
    /\ UNCHANGED container
    /\ IF not_initialized(container)
       THEN /\ response' = NotInitialized
            /\ ops' = <<>>
            /\ UNCHANGED <<store, now>>
       ELSE LET found == read_item(store, config_id(product_code), product_code)
            IN  \/ /\ found = {}
                   /\ response' = NotFound
                   /\ ops' = failed(<<>>, ReadNotFound)
                   /\ UNCHANGED <<store, now>>
                \/ /\ response' = StoreError      \* read_item raises
                   /\ ops' = failed(<<>>, ReadError)
                   /\ UNCHANGED <<store, now>>
                \/ \E config \in found :
                     /\ now' = now + 1
                     /\ LET doc == disabled_config(config, services, now')
                        IN  \/ /\ store' = upsert_item(store, doc)
                               /\ ops' = <<ReadOk, UpsertOk>>
                               /\ response' = disable_result(product_code, services,
                                                             doc.apis.enabled)
                            \/ /\ store' = upsert_item_raises(store, doc)
                               /\ ops' = failed(<<ReadOk>>, UpsertError)
                               /\ response' = StoreError

----------------------------------------------------------------------------
(* get_status *)

\* config.get(name, {}).get("enabled", False)
service_flag(config, name) == Get(Get(config, name, EmptyDict), "enabled", FALSE)

\* The projection of a document that was read (lines 144-153); a missing key
\* reads as None, modelled as the key being absent from the result.
status_of(product_code, config) ==
    LET r0 == [productCode |-> product_code,
               enabledServices |-> Get(Get(config, "apis", EmptyDict), "enabled", <<>>),
               analytics |-> service_flag(config, "analytics"),
               tags |-> service_flag(config, "tags"),
               adsense |-> service_flag(config, "adsense"),
               ads |-> service_flag(config, "ads")]
        r1 == IF "productName" \in DOMAIN config
              THEN Put(r0, "productName", config.productName) ELSE r0
    IN  IF "updatedAt" \in DOMAIN config
        THEN Put(r1, "updatedAt", config.updatedAt) ELSE r1

\* A default that takes over AnalyticsConfig's enabled = True.
default_status_on(product_code) ==
    [productCode |-> product_code,
     enabledServices |-> <<>>,
     analytics |-> TRUE,
     tags |-> FALSE,
     adsense |-> FALSE,
     ads |-> FALSE]

\* "Configuration doesn't exist" (lines 157-164).
default_status(product_code) ==
    [productCode |-> product_code,
     enabledServices |-> <<>>,
     analytics |-> FALSE,
     tags |-> FALSE,
     adsense |-> FALSE,
     ads |-> FALSE]

\* An inner handler that lets the read's exception out.
inner_except_reraise(product_code, error) == error

\* The inner "except Exception": whatever the read raised, the default
\* status is returned.
inner_except(product_code, error) ==
    [ok |-> TRUE, result |-> default_status(product_code)]

get_status(product_code) ==
    /\ request' = [op |-> "status", product_code |-> product_code]
    /\ before' = store
    /\ UNCHANGED <<container, store, now>>
    /\ IF not_initialized(container)
       THEN /\ response' = NotInitialized
            /\ ops' = <<>>
       ELSE LET found == read_item(store, config_id(product_code), product_code)
            IN  \/ /\ found = {}
                   /\ ops' = failed(<<>>, ReadNotFound)
                   /\ response' = inner_except(product_code, NotFound)
                \/ \* read_item raises: swallowed by the inner except
                   /\ ops' = failed(<<>>, ReadError)
                   /\ response' = inner_except(product_code, StoreError)
                \/ \E config \in found :
                     /\ ops' = <<ReadOk>>
                     /\ response' = [ok |-> TRUE, result |-> status_of(product_code, config)]

----------------------------------------------------------------------------
(* The system *)

\* After ServiceManager.__init__: the client handle is set, or construction
\* failed and it stayed None; nothing has been written by this process.
Init ==
    /\ container \in BOOLEAN
    /\ store = {}
    /\ now = 0
    /\ calls = 0
    /\ request = [op |-> "none"]
    /\ response = [ok |-> TRUE, result |-> EmptyDict]
    /\ before = {}
    /\ ops = <<>>
    /\ http = [endpoint |-> "none"]
    /\ tasks = <<>>
    /\ app = "serving"

\* Calls of the manager's methods, any number of status queries and at most
\* MaxCalls enable and disable calls.
Enable ==
    /\ calls < MaxCalls
    /\ calls' = calls + 1
    /\ \E p \in ProductCodes, s \in ServiceLists, c \in Configs : enable_apis(p, s, c)
    /\ UNCHANGED <<http, tasks, app>>

Disable ==
    /\ calls < MaxCalls
    /\ calls' = calls + 1
    /\ \E p \in ProductCodes, s \in ServiceLists : disable_apis(p, s)
    /\ UNCHANGED <<http, tasks, app>>

GetStatus ==
    /\ \E p \in ProductCodes : get_status(p)
    /\ UNCHANGED <<calls, http, tasks, app>>

Next == Enable \/ Disable \/ GetStatus

Spec == Init /\ [][Next]_vars

----------------------------------------------------------------------------
\* The HTTP facade (src/main.py).

OK == 200
Unauthorized == 401
Unprocessable == 422
ServerError == 500

KeyHeader == "Ocp-Apim-Subscription-Key"

\* The headers of a request: without the key, with an empty key, with a key.
HeaderSets ==
    {EmptyDict, Put(EmptyDict, KeyHeader, ""), Put(EmptyDict, KeyHeader, "test-key")}

\* The endpoints that depend on verify_subscription_key, each with the
\* operation of a gateway manager it awaits.
GatewayEndpoints ==
    {<<"/analytics/properties", "analytics_mgr.list_properties">>,
     <<"/analytics/properties/{property_id}", "analytics_mgr.get_property">>,
     <<"/analytics/events", "analytics_mgr.send_event">>,
     <<"/analytics/reports", "analytics_mgr.run_report">>,
     <<"/tags/containers", "tag_mgr.list_containers">>,
     <<"/tags/containers/{container_id}", "tag_mgr.get_container">>,
     <<"/adsense/reports/revenue", "adsense_mgr.get_revenue_report">>,
     <<"/ads/campaigns", "ads_mgr.list_campaigns">>}

PublicEndpoints == {"/", "/health"}

\* A dependency that lets every request through.
verify_subscription_key_open(headers) == OK

\* Depends(verify_subscription_key): the status the dependency ends the
\* request with, or OK when the endpoint's function is to run. The Header
\* parameter has no default, so a request without it fails validation.
verify_subscription_key(headers) ==
    IF KeyHeader \notin DOMAIN headers THEN Unprocessable
    ELSE IF headers[KeyHeader] = "" THEN Unauthorized
    ELSE OK

\* The exchange of a request the dependency ended.
rejected(endpoint, headers) ==
    [endpoint |-> endpoint, headers |-> headers,
     status |-> verify_subscription_key(headers),
     invoked |-> "none",
     body |-> [detail |-> IF verify_subscription_key(headers) = Unauthorized
                          THEN "Missing subscription key" ELSE "Field required"]]

\* A handler that answers 200 whatever the manager did.
handled_always_ok(endpoint, headers, invoked, outcome) ==
    [endpoint |-> endpoint, headers |-> headers, status |-> OK, invoked |-> invoked,
     body |-> [success |-> TRUE,
               data |-> IF outcome.ok THEN outcome.result ELSE outcome.error]]

\* The exchange of a request whose manager call returned or raised:
\* {"success": True, "data": result}, or HTTPException(500, detail=str(e)).
handled(endpoint, headers, invoked, outcome) ==
    [endpoint |-> endpoint, headers |-> headers,
     status |-> IF outcome.ok THEN OK ELSE ServerError,
     invoked |-> invoked,
     body |-> IF outcome.ok THEN [success |-> TRUE, data |-> outcome.result]
              ELSE [detail |-> outcome.error]]

\* POST /apis/enable
enable_google_apis(headers, body) ==
    IF verify_subscription_key(headers) # OK
    THEN /\ http' = rejected("/apis/enable", headers)
         /\ UNCHANGED mgr
    ELSE /\ enable_apis(body.productCode, body.services, body.config)
         /\ http' = handled("/apis/enable", headers, "service_mgr.enable_apis", response')

\* GET /apis/status/{product_code}
get_api_status(headers, product_code) ==
    IF verify_subscription_key(headers) # OK
    THEN /\ http' = rejected("/apis/status/{product_code}", headers)
         /\ UNCHANGED mgr
    ELSE /\ get_status(product_code)
         /\ http' = handled("/apis/status/{product_code}", headers,
                            "service_mgr.get_status", response')

\* An endpoint of a provider gateway: its manager's call returns or raises.
gateway_endpoint(e, headers) ==
    /\ UNCHANGED mgr
    /\ IF verify_subscription_key(headers) # OK
       THEN http' = rejected(e[1], headers)
       ELSE \/ http' = handled(e[1], headers, e[2], [ok |-> TRUE, result |-> e[2]])
            \/ http' = handled(e[1], headers, e[2], [ok |-> FALSE, error |-> e[2]])

\* GET / and GET /health have no dependency.
public_endpoint(endpoint, headers) ==
    /\ UNCHANGED mgr
    /\ http' = [endpoint |-> endpoint, headers |-> headers, status |-> OK,
                invoked |-> "none", body |-> [service |-> "acidni-google"]]

\* Requests to the facade, at most MaxCalls of them.
HttpEnable ==
    /\ calls < MaxCalls
    /\ calls' = calls + 1
    /\ \E h \in HeaderSets, p \in ProductCodes, s \in ServiceLists, c \in Configs :
         enable_google_apis(h, [productCode |-> p, services |-> s, config |-> c])
    /\ UNCHANGED <<tasks, app>>

HttpStatus ==
    /\ calls < MaxCalls
    /\ calls' = calls + 1
    /\ \E h \in HeaderSets, p \in ProductCodes : get_api_status(h, p)
    /\ UNCHANGED <<tasks, app>>

HttpGateway ==
    /\ calls < MaxCalls
    /\ calls' = calls + 1
    /\ \E e \in GatewayEndpoints, h \in HeaderSets : gateway_endpoint(e, h)
    /\ UNCHANGED <<tasks, app>>

HttpPublic ==
    /\ calls < MaxCalls
    /\ calls' = calls + 1
    /\ \E e \in PublicEndpoints, h \in HeaderSets : public_endpoint(e, h)
    /\ UNCHANGED <<tasks, app>>

NextHttp == HttpEnable \/ HttpStatus \/ HttpGateway \/ HttpPublic

SpecHttp == Init /\ [][NextHttp]_vars

----------------------------------------------------------------------------
\* One caller of the manager working on one product, who may repeat a call:
\* up to MaxAttempts enable and disable calls, over two service names.

MaxAttempts == 3

CallerProductCodes == {<<"T", "P">>}

CallerServiceLists == UNION {[1..n -> {"analytics", "tags"}] : n \in 0..MaxServices}

CallerConfigs == {NoConfig, TestConfig}

CallerEnable ==
    /\ calls < MaxAttempts
    /\ calls' = calls + 1
    /\ \E p \in CallerProductCodes, s \in CallerServiceLists, c \in CallerConfigs :
         enable_apis(p, s, c)
    /\ UNCHANGED <<http, tasks, app>>

CallerDisable ==
    /\ calls < MaxAttempts
    /\ calls' = calls + 1
    /\ \E p \in CallerProductCodes, s \in CallerServiceLists : disable_apis(p, s)
    /\ UNCHANGED <<http, tasks, app>>

NextCaller == CallerEnable \/ CallerDisable

SpecCaller == Init /\ [][NextCaller]_vars

----------------------------------------------------------------------------
\* Requests in flight. Every server process runs one event loop (uvicorn.run)
\* with its own ServiceManager on the shared container. The handlers are
\* coroutines that call the synchronous CosmosClient and never await: once
\* the loop of a process has begun one, it runs no other coroutine until
\* that one has returned. The steps of a call are its store operations.

MaxTasks == 3
MaxProcesses == 2

Processes == 1..MaxProcesses

TaskServiceLists == {<<>>, <<"analytics">>, <<"tags">>, <<"analytics", "tags">>}

\* The calls the event loop of process p has begun and not finished.
Running(p) ==
    {t \in DOMAIN tasks : tasks[t].proc = p /\ tasks[t].pc \in {"read", "upsert"}}

Finish(t, outcome) == [tasks EXCEPT ![t].pc = "done", ![t].outcome = outcome]

\* A request for process p is accepted and waits for the event loop.
Arrive(p, op, product_code, services, config) ==
    /\ Len(tasks) < MaxTasks
    /\ tasks' = Append(tasks, [proc |-> p, op |-> op, product_code |-> product_code,
                               services |-> services, config |-> config,
                               pc |-> "pending", found |-> {}, doc |-> EmptyDict,
                               replaced |-> {}, outcome |-> EmptyDict])
    /\ UNCHANGED <<container, store, now, calls, request, response, before, ops, http, app>>

\* The event loop begins the call: the container guard, and for enable the
\* building of the document, up to the first store operation.
Begin(t) ==
    /\ tasks[t].pc = "pending"
    /\ Running(tasks[t].proc) = {}
    /\ UNCHANGED <<container, store, calls, request, response, before, ops, http, app>>
    /\ IF not_initialized(container)
       THEN /\ tasks' = Finish(t, NotInitialized)
            /\ UNCHANGED now
       ELSE IF tasks[t].op = "enable"
       THEN /\ now' = now + 1
            /\ tasks' = [tasks EXCEPT
                           ![t].pc = "upsert",
                           ![t].doc = product_config(tasks[t].product_code,
                                                     tasks[t].services,
                                                     tasks[t].config, now')]
       ELSE /\ tasks' = [tasks EXCEPT ![t].pc = "read"]
            /\ UNCHANGED now

\* container.read_item returns or raises, and the call goes on to its upsert
\* (disable) or returns (getStatus).
ReadStep(t) ==
    /\ tasks[t].pc = "read"
    /\ UNCHANGED <<container, store, calls, request, response, before, ops, http, app>>
    /\ LET task == tasks[t]
           found == read_item(store, config_id(task.product_code), task.product_code)
       IN  IF task.op = "status"
           THEN /\ UNCHANGED now
                /\ \/ /\ found = {}
                      /\ tasks' = Finish(t, inner_except(task.product_code, NotFound))
                   \/ \E config \in found :
                        tasks' = [Finish(t, [ok |-> TRUE,
                                             result |-> status_of(task.product_code, config)])
                                    EXCEPT ![t].found = found]
           ELSE \/ /\ found = {}
                   /\ tasks' = Finish(t, NotFound)
                   /\ UNCHANGED now
                \/ \E config \in found :
                     /\ now' = now + 1
                     /\ tasks' = [tasks EXCEPT
                                    ![t].pc = "upsert",
                                    ![t].found = found,
                                    ![t].doc = disabled_config(config, task.services, now')]

\* container.upsert_item returns or raises, and the call returns.
UpsertStep(t) ==
    /\ tasks[t].pc = "upsert"
    /\ UNCHANGED <<container, now, calls, request, response, before, ops, http, app>>
    /\ LET task == tasks[t]
           replaced == read_item(store, task.doc.id, partition_key_of(task.doc))
       IN  \/ /\ store' = upsert_item(store, task.doc)
              /\ tasks' = [Finish(t, IF task.op = "enable"
                                     THEN enable_result(task.product_code, task.services)
                                     ELSE disable_result(task.product_code, task.services,
                                                         task.doc.apis.enabled))
                             EXCEPT ![t].replaced = replaced]
           \/ /\ store' = upsert_item_raises(store, task.doc)
              /\ tasks' = Finish(t, StoreError)

TaskArrive ==
    \E p \in Processes :
       \/ \E s \in TaskServiceLists :
            Arrive(p, "enable", <<"T", "P">>, s, NoConfig)
       \/ \E s \in TaskServiceLists :
            Arrive(p, "disable", <<"T", "P">>, s, NoConfig)
       \/ Arrive(p, "status", <<"T", "P">>, <<>>, NoConfig)

TaskBegin == \E t \in DOMAIN tasks : Begin(t)

TaskRead == \E t \in DOMAIN tasks : ReadStep(t)

TaskUpsert == \E t \in DOMAIN tasks : UpsertStep(t)

NextTasks == TaskArrive \/ TaskBegin \/ TaskRead \/ TaskUpsert

SpecTasks == Init /\ [][NextTasks]_vars

----------------------------------------------------------------------------
\* Startup. The lifespan constructs the managers, ServiceManager last, and
\* then yields (serving); an exception of a constructor would end the
\* startup. Afterwards one caller uses the manager.

\* An initializer that lets the client's exception out.
initialize_cosmos_raising(client_ok) ==
    [container |-> client_ok, raised |-> ~client_ok]

\* ServiceManager.__init__ with _initialize_cosmos: self.container is the
\* container client when the client could be constructed and stays None
\* otherwise; the exception is logged and swallowed.
initialize_cosmos(client_ok) ==
    [container |-> client_ok, raised |-> FALSE]

\* The construction has not started: no manager exists, the handle is unset.
InitStartup ==
    /\ container = FALSE
    /\ store = {}
    /\ now = 0
    /\ calls = 0
    /\ request = [op |-> "none"]
    /\ response = [ok |-> TRUE, result |-> EmptyDict]
    /\ before = {}
    /\ ops = <<>>
    /\ http = [endpoint |-> "none"]
    /\ tasks = <<>>
    /\ app = "starting"

lifespan ==
    /\ app = "starting"
    /\ \E client_ok \in BOOLEAN :
         LET service_mgr == initialize_cosmos(client_ok)
         IN  /\ container' = service_mgr.container
             /\ app' = IF service_mgr.raised THEN "aborted" ELSE "serving"
    /\ UNCHANGED <<store, now, calls, request, response, before, ops, http, tasks>>

ServeEnable == app = "serving" /\ CallerEnable

ServeDisable == app = "serving" /\ CallerDisable

ServeStatus == app = "serving" /\ GetStatus

NextStartup == lifespan \/ ServeEnable \/ ServeDisable \/ ServeStatus

SpecStartup == InitStartup /\ [][NextStartup]_vars

----------------------------------------------------------------------------
(* Vocabulary of the properties *)

TP == <<"T", "P">>
tp == <<"t", "p">>

\* The expected primary key of every product code of the model, written out.
TpConfigId == <<"t", "p", "-google-config">>

\* The documents a container holds for a product code.
DocsOf(items, p) == {d \in items : d.productCode = p}

Elems(list) == {list[i] : i \in DOMAIN list}

\* The services with a settings sub-object in a document.
SettingsKeys(d) == Vocabulary \cap DOMAIN d

RECURSIVE Minus(_, _)
Minus(list, gone) ==
    IF list = <<>> THEN <<>>
    ELSE IF Head(list) \in gone THEN Minus(Tail(list), gone)
    ELSE <<Head(list)>> \o Minus(Tail(list), gone)

EnableOk == request.op = "enable" /\ response.ok
DisableOk == request.op = "disable" /\ response.ok

----------------------------------------------------------------------------
\* C1: after a successful enable(P, S2, cfg2) the one stored document of P has
\* enabledServices equal to S2, and no settings sub-object of a service that
\* is not listed in S2, whatever the document held before the call.
C1_EnableIsFullReplace ==
    EnableOk =>
        /\ Cardinality(DocsOf(store, request.product_code)) = 1
        /\ \A d \in DocsOf(store, request.product_code) :
             /\ d.apis.enabled = request.services
             /\ SettingsKeys(d) \subseteq Elems(request.services)

\* An enable that replaced a document holding an enabled service, with its
\* settings, that the new call does not list.
C1_Witness ==
    /\ EnableOk
    /\ \E old \in DocsOf(before, request.product_code) :
         \E s \in SettingsKeys(old) :
            /\ s \in Elems(old.apis.enabled)
            /\ s \notin Elems(request.services)
            /\ request.services # <<>>

C3_DisableRequiresDocument ==
    (request.op = "disable" /\ DocsOf(before, request.product_code) = {}) =>
        /\ ~response.ok
        /\ DocsOf(store, request.product_code) = {}
        /\ store = before

\* A disable of an unconfigured product that reached the read and failed
\* there, while another product code has a document.
C3_Witness ==
    /\ request.op = "disable"
    /\ response = NotFound
    /\ DocsOf(before, request.product_code) = {}
    /\ before # {}

\* C4: a successful disable(P, S) stores the previous enabledServices without
\* the names in S, nothing else removed and nothing added, and returns that
\* stored list as remainingServices.
C4_DisableRemovesExactly ==
    DisableOk =>
        \E old \in DocsOf(before, request.product_code) :
            /\ DocsOf(before, request.product_code) = {old}
            /\ \E new \in DocsOf(store, request.product_code) :
                 /\ DocsOf(store, request.product_code) = {new}
                 /\ new.apis.enabled = Minus(old.apis.enabled, Elems(request.services))
                 /\ response.result.remainingServices = new.apis.enabled

\* A disable that removed one of two enabled services and kept the other.
C4_Witness ==
    /\ DisableOk
    /\ \E old \in DocsOf(before, request.product_code) :
         /\ Len(old.apis.enabled) = 2
         /\ Len(response.result.remainingServices) = 1
         /\ Len(request.services) = 1

\* C5: when the document of P exists and is read, getStatus(P) reports each
\* of the four services true if and only if it is in enabledServices.
C5_StatusFlagsMatchEnabled ==
    (request.op = "status" /\ response.ok /\ "updatedAt" \in DOMAIN response.result) =>
        \A d \in DocsOf(store, request.product_code) :
            \A s \in Vocabulary :
                response.result[s] = (s \in Elems(d.apis.enabled))

\* A step that is getStatus(P) reading the document right after a successful
\* disable(P, D).
StatusAfterDisable ==
    /\ DisableOk
    /\ request'.op = "status"
    /\ request'.product_code = request.product_code
    /\ response'.ok
    /\ "updatedAt" \in DOMAIN response'.result

\* C6: after enable(P, S, cfg) and a successful disable(P, D), getStatus(P)
\* reports false for every service in D and leaves it out of enabledServices,
\* and still reports every service that was enabled and is not in D as
\* enabled, whatever settings cfg carried.
C6_StatusAfterDisable ==
    [][StatusAfterDisable =>
         LET st == response'.result
             D == Elems(request.services)
         IN  /\ \A s \in Vocabulary \cap D :
                  st[s] = FALSE /\ s \notin Elems(st.enabledServices)
             /\ \A old \in DocsOf(before, request.product_code) :
                  \A s \in (Vocabulary \cap Elems(old.apis.enabled)) \ D :
                      st[s] = TRUE /\ s \in Elems(st.enabledServices)]_vars

\* Two documents that agree in every field but updatedAt.
SameButUpdatedAt(a, b) ==
    /\ DOMAIN a = DOMAIN b
    /\ \A k \in DOMAIN a \ {"updatedAt"} : a[k] = b[k]

\* C7: a successful enable repeated with identical arguments leaves the same
\* single document, in every field except updatedAt.
C7_EnableIdempotent ==
    [][(EnableOk /\ request' = request /\ response'.ok) =>
         \E a \in DocsOf(store, request.product_code) :
            /\ DocsOf(store, request.product_code) = {a}
            /\ \E b \in DocsOf(store', request.product_code) :
                 /\ DocsOf(store', request.product_code) = {b}
                 /\ SameButUpdatedAt(a, b)]_vars

\* A successful enable whose document differs from the one it replaced in
\* updatedAt alone: the second of two identical calls.
C7_Witness ==
    /\ EnableOk
    /\ request.config # NoConfig
    /\ request.services # <<>>
    /\ \E a \in DocsOf(before, request.product_code) :
         \E b \in DocsOf(store, request.product_code) :
            /\ SameButUpdatedAt(a, b)
            /\ a.updatedAt # b.updatedAt

\* C8: every stored document's id, and the configId enable returns, is the
\* lowercased product code followed by "-google-config", whatever the casing;
\* a product code never has two documents, and disable finds the document
\* enable wrote for the same product code.
C8_KeyDerivation ==
    /\ \A d \in store : d.id = TpConfigId
    /\ \A p \in ProductCodes : Cardinality(DocsOf(store, p)) <= 1
    /\ EnableOk => response.result.configId = TpConfigId
    /\ (request.op = "disable" /\ container
          /\ DocsOf(before, request.product_code) # {}) => response # NotFound

\* Both casings of one product code enabled: two documents, one per product
\* code as partition key, both with the lower-case id.
C8_Witness ==
    /\ EnableOk
    /\ request.product_code = TP
    /\ response.result.configId = TpConfigId
    /\ DocsOf(before, tp) # {}
    /\ Cardinality(DocsOf(store, TP)) = 1
    /\ Cardinality(DocsOf(store, tp)) = 1
    /\ \A d \in store : d.id = TpConfigId

\* C9: in every stored document the services with a settings sub-object are
\* among its enabledServices.
C9_SettingsSubsetOfEnabled ==
    \A d \in store : SettingsKeys(d) \subseteq Elems(d.apis.enabled)

\* C10: no stored document has an enabledServices entry outside the
\* vocabulary, and an enable naming an unknown service fails without a store
\* write.
C10_OnlyKnownServices ==
    /\ \A d \in store : Elems(d.apis.enabled) \subseteq Vocabulary
    /\ (request.op = "enable" /\ ~(Elems(request.services) \subseteq Vocabulary)) =>
          (~response.ok /\ store = before)

\* C11: when the store client was never initialized, enable, disable and
\* getStatus each fail with the fixed "not initialized" error and make no
\* store read or write; getStatus does not fall back to the default status.
C11_UninitializedFailsFast ==
    (~container /\ request.op \in {"enable", "disable", "status"})
        => /\ response = [ok |-> FALSE, error |-> "Cosmos DB not initialized"]
           /\ ops = <<>>
           /\ store = before
           /\ store = {}

\* A status query of a degraded manager, after enable and disable calls.
C11_Witness ==
    /\ ~container
    /\ calls = MaxCalls
    /\ request.op = "status"
    /\ ~response.ok

\* C12: with an initialized store getStatus never fails: when the read of
\* the document fails, as not found or otherwise, it returns the default
\* status, with no enabled service, four false flags, no productName and
\* no updatedAt.
C12_StatusNeverFails ==
    (container /\ request.op = "status")
        => /\ response.ok
           /\ (ops # <<ReadOk>>)
                => response.result = [productCode |-> request.product_code,
                                      enabledServices |-> <<>>,
                                      analytics |-> FALSE,
                                      tags |-> FALSE,
                                      adsense |-> FALSE,
                                      ads |-> FALSE]

\* The read of an existing document raises.
C12_Witness ==
    /\ container
    /\ request.op = "status"
    /\ ops = <<ReadError>>
    /\ read_item(store, config_id(request.product_code), request.product_code) # {}

\* The documents of the other keys, which a call for `doc`'s key leaves alone.
OtherDocs(items, doc) ==
    {d \in items : ~(d.id = doc.id /\ d.productCode = doc.productCode)}

C20_ProductName ==
    /\ EnableOk =>
         \A doc \in DocsOf(store, request.product_code) :
            doc.productName = IF "productName" \in DOMAIN request.config
                              THEN request.config.productName
                              ELSE request.product_code
    /\ (request.op = "status" /\ ops = <<ReadOk>>) =>
         \E doc \in DocsOf(store, request.product_code) :
            /\ doc.id = lower(request.product_code) \o Suffix
            /\ response.result.productName = doc.productName

\* One document named after its product code, and the status of another
\* returning the name its config supplied.
C20_Witness ==
    /\ request.op = "status"
    /\ ops = <<ReadOk>>
    /\ response.result.productName # request.product_code
    /\ \E doc \in store : doc.productName = doc.productCode

\* The last request carried no subscription key: the header was absent or empty.
LacksKey(exchange) ==
    \/ "Ocp-Apim-Subscription-Key" \notin DOMAIN exchange.headers
    \/ exchange.headers["Ocp-Apim-Subscription-Key"] = ""

\* C17: a request to any endpoint other than / and /health that lacks the
\* Ocp-Apim-Subscription-Key header is rejected, with 422 when the header is
\* absent and 401 when it is present but empty, and no operation of a gateway
\* or of the configuration manager is invoked for it.
C17_KeyRequired ==
    [][(calls' = calls + 1 /\ http'.endpoint \notin {"/", "/health"} /\ LacksKey(http'))
         => /\ http'.status = IF "Ocp-Apim-Subscription-Key" \in DOMAIN http'.headers
                               THEN 401 ELSE 422
            /\ http'.invoked = "none"
            /\ UNCHANGED <<container, store, now, request, response, before, ops>>]_vars

\* An enable with an empty key, turned away after an earlier enable was served.
C17_Witness ==
    /\ http.endpoint = "/apis/enable"
    /\ http.status = 401
    /\ http.invoked = "none"
    /\ EnableOk

\* The last exchange was a request to `endpoint` that carried a key.
Served(endpoint) == http.endpoint = endpoint /\ ~LacksKey(http)

\* C18: POST /apis/enable with the subscription header and a valid body
\* answers 200 with success, productCode, enabledServices equal to the
\* requested services and the derived configId when the manager's enable
\* succeeds, and 500 whenever the manager's enable fails.
C18_EnableEndpoint ==
    Served("/apis/enable")
        => /\ request.op = "enable"
           /\ IF response.ok
              THEN /\ http.status = 200
                   /\ http.body.success
                   /\ http.body.data.success
                   /\ http.body.data.productCode = request.product_code
                   /\ http.body.data.enabledServices = request.services
                   /\ http.body.data.configId = lower(request.product_code) \o Suffix
                   /\ ops = <<UpsertOk>>
              ELSE /\ http.status = 500
                   /\ (ops = <<>> \/ ops = <<UpsertError>>)

\* An enable answered 500 because the upsert was rejected, after an earlier
\* enable had stored a document.
C18_Witness ==
    /\ Served("/apis/enable")
    /\ http.status = 500
    /\ ops = <<UpsertError>>
    /\ store # {}

\* The body of a 200 answer of the status endpoint is the status projection
\* of the product code asked for.
StatusProjectionOk ==
    /\ http.status = 200
    /\ http.body.success
    /\ http.body.data.productCode = request.product_code
    /\ {"enabledServices", "analytics", "tags", "adsense", "ads"}
          \subseteq DOMAIN http.body.data
    /\ (ops # <<ReadOk>>) => http.body.data.enabledServices = <<>>

\* C19: GET /apis/status/{productCode} with the subscription header present
\* answers 200 with the status projection for every product code, whether or
\* not the product has ever been configured.
C19_StatusAlwaysOk ==
    Served("/apis/status/{product_code}") => StatusProjectionOk

\* C19, amended: with the subscription header present and the store client
\* initialized, GET /apis/status/{productCode} answers 200 with the status
\* projection for every product code, configured or not; when the store
\* client was never initialized it answers 500.
C19_StatusOkWhenInitialized ==
    Served("/apis/status/{product_code}")
        => /\ request.op = "status"
           /\ IF container
              THEN StatusProjectionOk
              ELSE http.status = 500 /\ http.invoked = "service_mgr.get_status"

\* The status of a product that was never configured, asked for after
\* another product was.
C19_Witness ==
    /\ Served("/apis/status/{product_code}")
    /\ container
    /\ http.status = 200
    /\ store # {}
    /\ DocsOf(store, request.product_code) = {}

\* The last call got as far as its upsert, which may or may not have been applied.
ReachedUpsert ==
    ops \in {<<UpsertOk>>, <<UpsertError>>, <<ReadOk, UpsertOk>>, <<ReadOk, UpsertError>>}

\* The document that one successful call of `request` leaves, updatedAt
\* aside, when it starts from the documents `items`.
AfterSingleCall(doc, items) ==
    IF request.op = "enable"
    THEN /\ doc.id = lower(request.product_code) \o Suffix
         /\ doc.productCode = request.product_code
         /\ doc.productName = Get(request.config, "productName", request.product_code)
         /\ doc.apis = [enabled |-> request.services]
         /\ SettingsKeys(doc) = Vocabulary \cap Elems(request.services)
         /\ \A k \in SettingsKeys(doc) : doc[k] = Get(request.config, k, EmptyDict)
    ELSE \E old \in DocsOf(items, request.product_code) :
            SameButUpdatedAt(doc, [old EXCEPT !.apis.enabled =
                                     Minus(old.apis.enabled, Elems(request.services))])

\* C16: when an enable or disable call whose upsert may or may not have
\* completed is repeated with the same payload, with no other write in
\* between, and the repeat succeeds, the stored document equals, except for
\* updatedAt, the document one successful call would have left.
C16_RetrySafe ==
    [][(request.op \in {"enable", "disable"} /\ ReachedUpsert
          /\ request' = request /\ response'.ok)
         => \E doc \in store' :
               /\ DocsOf(store', request.product_code) = {doc}
               /\ AfterSingleCall(doc, before)]_vars

\* A disable that removed one of two enabled services, repeated with
\* success after its first upsert had been applied.
C16_Witness ==
    /\ calls = MaxAttempts
    /\ DisableOk
    /\ ops = <<ReadOk, UpsertOk>>
    /\ before # store
    /\ \E old \in before, doc \in store :
         /\ Len(old.apis.enabled) = 1
         /\ doc.apis.enabled = old.apis.enabled
         /\ \E s \in Elems(request.services) : s \notin Elems(old.apis.enabled)

\* Task t is a disable whose upsert is applied in this step although the
\* document it read is no longer the stored one: another call's upsert
\* completed between its read and its upsert.
StaleUpsert(t) ==
    /\ t \in DOMAIN tasks
    /\ tasks[t].op = "disable"
    /\ tasks[t].pc = "upsert"
    /\ tasks'[t].pc = "done"
    /\ tasks'[t].outcome.ok
    /\ DocsOf(store, tasks[t].product_code) # tasks[t].found

\* C14: concurrent enable and disable calls for one product code can lose an
\* update. When a disable has read the document, another call's upsert for
\* the product completes, and the disable's upsert follows, the stored
\* document is the one the disable derived from its stale read: the other
\* call's document is replaced whole and nothing of it is kept.
C14_LostUpdate ==
    [][\A t \in 1..MaxTasks :
          StaleUpsert(t) =>
             \E old \in tasks[t].found :
                /\ DocsOf(store', tasks[t].product_code) =
                      {[old EXCEPT !.apis.enabled =
                                      Minus(old.apis.enabled, Elems(tasks[t].services)),
                                   !.updatedAt = tasks[t].doc.updatedAt]}
                /\ DocsOf(store', tasks[t].product_code)
                      \cap DocsOf(store, tasks[t].product_code) = {}]_vars

\* A disable and an enable of the same product both returned success, the
\* enable's document was stored between the disable's read and its upsert,
\* and a service that the enable turned on and the disable was not asked to
\* remove is missing from the stored document.
C14_Witness ==
    \E d \in DOMAIN tasks, w \in DOMAIN tasks :
       /\ tasks[d].op = "disable" /\ tasks[d].pc = "done" /\ tasks[d].outcome.ok
       /\ tasks[w].op = "enable" /\ tasks[w].pc = "done" /\ tasks[w].outcome.ok
       /\ tasks[d].product_code = tasks[w].product_code
       /\ tasks[d].replaced = {tasks[w].doc}
       /\ tasks[d].found # tasks[d].replaced
       /\ store = {tasks[d].doc}
       /\ \E s \in Elems(tasks[w].services) :
            /\ s \notin Elems(tasks[d].services)
            /\ s \notin Elems(tasks[d].doc.apis.enabled)

\* C15: a store operation in progress for one request suspends only that
\* request. While a call waits on its store read or upsert, a request
\* waiting in the same process can be begun.
C15_OthersProgress ==
    \A a \in DOMAIN tasks, b \in DOMAIN tasks :
       (/\ tasks[a].pc \in {"read", "upsert"}
        /\ tasks[b].pc = "pending"
        /\ tasks[b].proc = tasks[a].proc)
          => ENABLED Begin(b)

\* C21: a successful disable(P, S) changes only the enabled-service list and
\* updatedAt of the stored document: id, productCode, productName and every
\* settings sub-object, of the services removed and of those that remain, are
\* written back as they were read.
C21_DisableFrame ==
    DisableOk =>
        \E old \in DocsOf(before, request.product_code) :
            \E new \in DocsOf(store, request.product_code) :
                /\ DOMAIN new = DOMAIN old
                /\ \A k \in DOMAIN old \ {"apis", "updatedAt"} : new[k] = old[k]
                /\ DOMAIN new.apis = DOMAIN old.apis
                /\ \A k \in DOMAIN old.apis \ {"enabled"} : new.apis[k] = old.apis[k]

\* A disable removed a service whose settings the document carries, and
\* the settings are still stored.
C21_Witness ==
    /\ DisableOk
    /\ \E new \in DocsOf(store, request.product_code) :
         \E k \in SettingsKeys(new) :
            /\ k \in Elems(request.services)
            /\ k \notin Elems(new.apis.enabled)
            /\ new[k] # EmptyDict
            /\ new.apis.enabled # <<>>

\* The keys of a stored document that are not its fixed fields: its settings
\* sub-objects.
SettingsEntries(doc) ==
    DOMAIN doc \ {"id", "productCode", "productName", "apis", "updatedAt"}

\* C22: the document a successful enable(P, services, config) writes carries
\* a settings sub-object for exactly the service names present in both
\* services and config, each equal to config's sub-object; an enabled service
\* that config does not mention gets no settings entry.
C22_SettingsForServicesInConfig ==
    EnableOk =>
        \A doc \in DocsOf(store, request.product_code) :
            /\ SettingsEntries(doc) = Elems(request.services) \cap DOMAIN request.config
            /\ \A k \in SettingsEntries(doc) : doc[k] = request.config[k]

\* C23: a successful enable makes exactly one upsert and no read; a
\* successful disable makes exactly one read followed by exactly one upsert;
\* getStatus makes at most one read and never writes; and a store operation
\* that failed is the last store operation of its call.
C23_StoreFootprint ==
    /\ EnableOk => ops = <<(<<"upsert_item", "ok">>)>>
    /\ DisableOk => ops = <<(<<"read_item", "ok">>), (<<"upsert_item", "ok">>)>>
    /\ request.op = "status" =>
          /\ Len(ops) <= 1
          /\ \A i \in DOMAIN ops : ops[i][1] = "read_item"
          /\ store = before
    /\ \A i \in DOMAIN ops : ops[i][2] # "ok" => i = Len(ops)
    /\ Len(ops) <= 2

\* A disable whose upsert failed after its read.
C23_Witness ==
    /\ request.op = "disable"
    /\ ~response.ok
    /\ Len(ops) = 2
    /\ ops[2][2] = "error"

\* C24: no operation deletes a document: a document that exists for a
\* product code exists in every later state, also after a disable has
\* removed all of its services, when the product has a document with empty
\* enabledServices and not the unconfigured state.
C24_NeverDeleted ==
    [][/\ \A d \in store :
            \E e \in store' : e.id = d.id /\ e.productCode = d.productCode
       /\ (request'.op = "disable" /\ response'.ok
             /\ response'.result.remainingServices = <<>>)
            => \E e \in DocsOf(store', request'.product_code) :
                  /\ e.apis.enabled = <<>>
                  /\ e.id = lower(request'.product_code) \o Suffix]_vars

\* A disable removed the last enabled service and the document is stored.
C24_Witness ==
    /\ DisableOk
    /\ response.result.remainingServices = <<>>
    /\ \E old \in DocsOf(before, request.product_code) : old.apis.enabled # <<>>
    /\ \E e \in DocsOf(store, request.product_code) : e.apis.enabled = <<>>

\* The document a read for product code q addresses.
Addressed(items, q) ==
    {d \in items : d.id = lower(q) \o Suffix /\ d.productCode = q}

\* C26: operations are isolated per product code: an enable, disable or
\* getStatus for P, successful or failed, creates, changes and removes no
\* document of another product code Q, and the document a status query for
\* Q reads is the same before and after.
C26_IsolatedPerProduct ==
    (request.op \in {"enable", "disable", "status"})
        => \A q \in ProductCodes \ {request.product_code} :
              /\ DocsOf(store, q) = DocsOf(before, q)
              /\ Addressed(store, q) = Addressed(before, q)

\* A write for one product code while the other, which differs from it in
\* letter case only, has a document.
C26_Witness ==
    /\ request.op \in {"enable", "disable"}
    /\ response.ok
    /\ store # before
    /\ \E q \in ProductCodes \ {request.product_code} :
         /\ Addressed(before, q) # {}
         /\ lower(q) = lower(request.product_code)

\* Only the other casing of the product code asked for had a document when
\* the last call started.
OnlyOtherCasing ==
    /\ DocsOf(before, request.product_code) = {}
    /\ \E d \in before :
         /\ d.productCode # request.product_code
         /\ d.id = lower(request.product_code) \o <<"-google-config">>

\* C27: the product code is the partition key verbatim and the id is
\* lowercased, so product codes that differ only in letter case share an id
\* and address distinct documents: when only "TP" was enabled, getStatus("tp")
\* returns the default nothing-enabled status and disable("tp", S) fails as
\* for an unconfigured product, leaving the document of "TP" as it was.
C27_CaseDistinctDocuments ==
    (container /\ OnlyOtherCasing)
        => /\ request.op = "status" =>
                 /\ response.ok
                 /\ response.result = [productCode |-> request.product_code,
                                        enabledServices |-> <<>>,
                                        analytics |-> FALSE, tags |-> FALSE,
                                        adsense |-> FALSE, ads |-> FALSE]
           /\ request.op = "disable" =>
                 /\ ~response.ok
                 /\ ops \in {<<(<<"read_item", "not found">>)>>,
                              <<(<<"read_item", "error">>)>>}
                 /\ store = before

\* disable("tp", S) found nothing although "TP" has a document of the same id.
C27_Witness ==
    /\ container
    /\ OnlyOtherCasing
    /\ request.op = "disable"
    /\ request.product_code = <<"t", "p">>
    /\ response = [ok |-> FALSE, error |-> "CosmosResourceNotFoundError"]
    /\ \E d \in store : d.productCode = <<"T", "P">> /\ d.id = <<"t", "p", "-google-config">>

\* C25: a failure to construct the store client does not abort startup:
\* the construction of the ServiceManager ends without raising and leaves
\* the store handle unset, the lifespan reaches its serving state, and the
\* handle is assigned during construction only, never by enable, disable or
\* getStatus.
C25_DegradedStartup ==
    /\ [](app # "aborted")
    /\ [](app = "starting" => ~container)
    /\ [][/\ app = "starting" => app' = "serving"
          /\ app = "serving" => (app' = "serving" /\ container' = container)]_vars

\* The application serves without a store handle and has answered calls.
C25_Witness ==
    /\ app = "serving"
    /\ ~container
    /\ calls = MaxAttempts
    /\ request.op = "status"
    /\ response = [ok |-> FALSE, error |-> "Cosmos DB not initialized"]

====
